---- MODULE Spec2Model ----
(* Model of src/2025py2_s28192/s28192_2025-2.py: the NCBIRetriever class   *)
(* (search_taxid, fetch_records), save_to_csv, plot_lengths and main.      *)
(* Remote services, the file system and the plotting library are the       *)
(* environment: each of their calls either answers or raises.              *)
EXTENDS Integers, Sequences, FiniteSets, TLC

VARIABLES
    pc,          \* position of the running code
    taxid,       \* taxid argument of search_taxid / local of main
    min_len,     \* main's min_len (save_to_csv's min_len)
    max_len,     \* main's max_len (save_to_csv's max_len)
    webenv,      \* self.webenv   : <<>> when the attribute is not set, <<w>> otherwise
    query_key,   \* self.query_key: <<>> when the attribute is not set, <<k>> otherwise
    count,       \* self.count    : <<>> when the attribute is not set, <<c>> otherwise
    args,        \* arguments of the running fetch_records call
    ret,         \* value returned by the last search_taxid / fetch_records call
    df,          \* table returned by save_to_csv
    df0,         \* table of the previous save_to_csv application
    csvFile,     \* <<>> when not written, <<[name, header, rows]>> otherwise
    plotFile,    \* <<>> when not written, <<[name, points]>> otherwise
    effects,     \* remote requests and file writes, in the order they happened
    fetchReqs,   \* parameters of the nucleotide efetch requests issued
    console,     \* messages printed
    openHandles, \* network handles that are open
    figureOpen,  \* a pyplot figure is open
    exc,         \* exception that left main ("none" when there is none)
    prev         \* kind of value the API client's previous call returned

vars == <<pc, taxid, min_len, max_len, webenv, query_key, count, args, ret, df, df0,
          csvFile, plotFile, effects, fetchReqs, console, openHandles, figureOpen,
          exc, prev>>

----------------------------------------------------------------------------
(* Bounds of the model *)
MaxRecords == 2     \* records in one fetched response
MaxSeqLen  == 2     \* residues of one record
MaxCount   == 2     \* Count reported by esearch
MaxFiltered == 3    \* records in a sequence handed to save_to_csv on its own

(* Program constants *)
ServiceLimit    == 500   \* min(max_records, 500)
MainMaxRecords  == 50    \* fetch_records(start=0, max_records=50)
DefaultStart    == 0     \* start=0

Min(a, b) == IF a <= b THEN a ELSE b

TaxIds     == {"9606", "562"}
Tokens     == {"w1", "w2"}
QueryKeys  == {"1", "2"}
Ids        == {"A1", "A2"}
Descs      == {"d"}
Residues(n) == [i \in 1..n |-> "N"]
Records    == [id : Ids, seq : {Residues(n) : n \in 0..MaxSeqLen}, description : Descs]
SeqsUpTo(S, n) == UNION {[1..k -> S] : k \in 0..n}
RecordSeqs == SeqsUpTo(Records, MaxRecords)

(* Raw console input, as sequences of characters *)
RawInputs == {<<"0">>, <<"1">>, <<"2">>, <<"1", "0">>, <<"-", "1">>, <<"x">>, <<>>}
Digits == {"0", "1", "2", "3", "4", "5", "6", "7", "8", "9"}
DigitVal(c) == CASE c = "0" -> 0 [] c = "1" -> 1 [] c = "2" -> 2 [] c = "3" -> 3
                 [] c = "4" -> 4 [] c = "5" -> 5 [] c = "6" -> 6 [] c = "7" -> 7
                 [] c = "8" -> 8 [] OTHER -> 9
AllDigits(s) == Len(s) > 0 /\ \A i \in 1..Len(s) : s[i] \in Digits
RECURSIVE DigitsVal(_)
DigitsVal(s) == IF s = <<>> THEN 0
                ELSE 10 * DigitsVal(SubSeq(s, 1, Len(s) - 1)) + DigitVal(s[Len(s)])
(* int(s): fails (ValueError) unless s is an optionally signed run of digits *)
IntOk(s) == IF Len(s) > 0 /\ s[1] \in {"-", "+"} THEN AllDigits(Tail(s)) ELSE AllDigits(s)
IntOf(s) == IF s[1] = "-" THEN 0 - DigitsVal(Tail(s))
            ELSE IF s[1] = "+" THEN DigitsVal(Tail(s)) ELSE DigitsVal(s)

(* Return values *)
RetNone     == [tag |-> "None", int |-> 0, list |-> <<>>]
RetInt(n)   == [tag |-> "int", int |-> n, list |-> <<>>]
RetList(l)  == [tag |-> "list", int |-> 0, list |-> l]
NoArgs      == [start |-> 0, max_records |-> 0]

----------------------------------------------------------------------------
(* save_to_csv: the filter loop and the projection *)
Keeps(rec, lo, hi) == lo <= Len(rec.seq) /\ Len(rec.seq) <= hi
Row(rec) == [Accession |-> rec.id, Length |-> Len(rec.seq), Description |-> rec.description]

RECURSIVE KeptLoop(_, _, _, _)
KeptLoop(records, i, lo, hi) ==
    IF i > Len(records) THEN <<>>
    ELSE IF Keeps(records[i], lo, hi)
         THEN <<records[i]>> \o KeptLoop(records, i + 1, lo, hi)
         ELSE KeptLoop(records, i + 1, lo, hi)

(* Variants of the loop: an exclusive upper bound; a loop that starts at the *)
(* second record.                                                           *)
RECURSIVE KeptLoopStrict(_, _, _, _)
KeptLoopStrict(records, i, lo, hi) ==
    IF i > Len(records) THEN <<>>
    ELSE IF lo <= Len(records[i].seq) /\ Len(records[i].seq) < hi
         THEN <<records[i]>> \o KeptLoopStrict(records, i + 1, lo, hi)
         ELSE KeptLoopStrict(records, i + 1, lo, hi)

KeptBy_StrictUpper(records, lo, hi) == KeptLoopStrict(records, 1, lo, hi)

KeptBy_SkipFirst(records, lo, hi) == KeptLoop(records, 2, lo, hi)

KeptBy(records, lo, hi) == KeptLoop(records, 1, lo, hi)

DataFrame(records, lo, hi) ==
    [k \in 1..Len(KeptBy(records, lo, hi)) |-> Row(KeptBy(records, lo, hi)[k])]

Header == <<"Accession", "Length", "Description">>
CsvName(t) == <<"taxid_", t, "_filtered.csv">>
PlotName(t) == <<"taxid_", t, "_plot.png">>

(* plot_lengths sorts a copy of the table by Length, descending; the order  *)
(* of rows of equal Length is not fixed by sort_values.                     *)
Perms(n) == {f \in [1..n -> 1..n] : \A i, j \in 1..n : f[i] = f[j] => i = j}
SortedDesc(t) ==
    {[i \in 1..Len(t) |-> t[f[i]]] : f \in
        {g \in Perms(Len(t)) : \A i, j \in 1..Len(t) :
            i < j => t[g[i]].Length >= t[g[j]].Length}}

----------------------------------------------------------------------------
(* NCBIRetriever *)

(* The source closes no handle; whether a handle whose last reference is   *)
(* dropped at function return gets closed depends on the runtime.          *)
AfterReturn(H) == {H, {}}

(* line 46 *)
HasSession_Always == TRUE

HasSession == webenv # <<>> /\ query_key # <<>>

(* line 51 *)
BatchSize_NoClamp(max_records) == max_records

BatchSize(max_records) == Min(max_records, ServiceLimit)

(* lines 30-37: the session is stored only past the count == 0 return *)
StoresSession_Always(c) == TRUE

StoresSession_Never(c) == FALSE

StoresSession(c) == c # 0

(* lines 41-43 *)
SearchExcept ==
    /\ ret' = RetNone
    /\ pc' = "ret_search"
    /\ UNCHANGED <<webenv, query_key, count>>

(* lines 18-20 *)
TaxEfetch ==
    /\ prev' = prev
    /\ pc = "tax_efetch"
    /\ effects' = Append(effects, "taxonomy")
    /\ \/ /\ openHandles' = openHandles \cup {"taxonomy"}
          /\ console' = Append(console, "searching")
          /\ pc' = "tax_read"
          /\ UNCHANGED <<ret, webenv, query_key, count>>
       \/ /\ SearchExcept
          /\ console' = console \o <<"searching", "error_search">>
          /\ UNCHANGED openHandles
    /\ UNCHANGED <<taxid, min_len, max_len, args, df, df0, csvFile, plotFile,
                   fetchReqs, figureOpen, exc>>

(* lines 21-23 *)
TaxRead ==
    /\ prev' = prev
    /\ pc = "tax_read"
    /\ \/ /\ console' = Append(console, "organism")
          /\ pc' = "esearch"
          /\ UNCHANGED <<ret, webenv, query_key, count, openHandles>>
       \/ /\ SearchExcept
          /\ console' = Append(console, "error_search")
          /\ openHandles' \in AfterReturn(openHandles)
    /\ UNCHANGED <<taxid, min_len, max_len, args, df, df0, csvFile, plotFile,
                   effects, fetchReqs, figureOpen, exc>>

(* lines 25-26 *)
Esearch ==
    /\ prev' = prev
    /\ pc = "esearch"
    /\ effects' = Append(effects, "esearch")
    /\ \/ /\ openHandles' = openHandles \cup {"esearch"}
          /\ pc' = "search_read"
          /\ UNCHANGED <<ret, webenv, query_key, count, console>>
       \/ /\ SearchExcept
          /\ console' = Append(console, "error_search")
          /\ openHandles' \in AfterReturn(openHandles)
    /\ UNCHANGED <<taxid, min_len, max_len, args, df, df0, csvFile, plotFile,
                   fetchReqs, figureOpen, exc>>

(* lines 27-39 *)
SearchRead ==
    /\ prev' = prev
    /\ pc = "search_read"
    /\ openHandles' \in AfterReturn(openHandles)
    /\ \/ /\ SearchExcept
          /\ console' = Append(console, "error_search")
       \/ \E c \in 0..MaxCount, w \in Tokens, k \in QueryKeys :
            /\ IF StoresSession(c)
               THEN /\ webenv' = <<w>>
                    /\ query_key' = <<k>>
                    /\ count' = <<c>>
               ELSE UNCHANGED <<webenv, query_key, count>>
            /\ IF c = 0
               THEN /\ console' = Append(console, "no_records_for")
                    /\ ret' = RetNone
               ELSE /\ console' = Append(console, "found")
                    /\ ret' = RetInt(c)
            /\ pc' = "ret_search"
    /\ UNCHANGED <<taxid, min_len, max_len, args, df, df0, csvFile, plotFile,
                   effects, fetchReqs, figureOpen, exc>>

(* lines 62-64 *)
FetchExcept_Reraise ==
    /\ console' = Append(console, "error_fetch")
    /\ ret' = ret
    /\ pc' = "raised"
    /\ exc' = "fetch_error"

FetchExcept ==
    /\ console' = Append(console, "error_fetch")
    /\ ret' = RetList(<<>>)
    /\ pc' = "ret_fetch"
    /\ exc' = exc

(* lines 46-48 *)
FetchCheck ==
    /\ prev' = prev
    /\ pc = "fetch_check"
    /\ IF ~HasSession
       THEN /\ console' = Append(console, "no_session")
            /\ ret' = RetList(<<>>)
            /\ pc' = "ret_fetch"
       ELSE /\ pc' = "fetch_efetch"
            /\ UNCHANGED <<console, ret>>
    /\ UNCHANGED <<taxid, min_len, max_len, webenv, query_key, count, args, df, df0,
                   csvFile, plotFile, effects, fetchReqs, openHandles, figureOpen,
                   exc>>

(* lines 50-60 *)
FetchEfetch ==
    /\ prev' = prev
    /\ pc = "fetch_efetch"
    /\ effects' = Append(effects, "efetch")
    /\ fetchReqs' = Append(fetchReqs,
                           [webenv |-> webenv[1], query_key |-> query_key[1],
                            retstart |-> args.start,
                            retmax |-> BatchSize(args.max_records)])
    /\ \/ /\ openHandles' = openHandles \cup {"efetch"}
          /\ pc' = "fetch_parse"
          /\ UNCHANGED <<ret, console, exc>>
       \/ /\ FetchExcept
          /\ UNCHANGED openHandles
    /\ UNCHANGED <<taxid, min_len, max_len, webenv, query_key, count, args, df, df0,
                   csvFile, plotFile, figureOpen>>

(* line 61 *)
FetchParse ==
    /\ prev' = prev
    /\ pc = "fetch_parse"
    /\ openHandles' \in AfterReturn(openHandles)
    /\ \/ \E rs \in RecordSeqs :
            /\ Len(rs) <= fetchReqs[Len(fetchReqs)].retmax
            /\ ret' = RetList(rs)
            /\ pc' = "ret_fetch"
            /\ UNCHANGED <<console, exc>>
       \/ FetchExcept
    /\ UNCHANGED <<taxid, min_len, max_len, webenv, query_key, count, args, df, df0,
                   csvFile, plotFile, effects, fetchReqs, figureOpen>>

----------------------------------------------------------------------------
(* save_to_csv, lines 66-74 *)
SaveToCsvOk(records, filename, lo, hi) ==
    /\ df' = DataFrame(records, lo, hi)
    /\ csvFile' = <<[name |-> filename, header |-> Header,
                     rows |-> DataFrame(records, lo, hi)]>>
    /\ effects' = Append(effects, "csv")

(* df.to_csv raises: nothing is returned *)
SaveToCsvRaises ==
    /\ pc' = "raised"
    /\ exc' = "csv_error"
    /\ UNCHANGED <<df, csvFile, effects>>

(* plot_lengths, lines 76-86 *)
PlotLengthsOk(table, output_file) ==
    /\ \E sorted \in SortedDesc(table) :
          plotFile' = <<[name |-> output_file, points |-> sorted]>>
    /\ effects' = Append(effects, "plot")
    /\ figureOpen' = FALSE

(* a call of lines 79-85 raises after plt.figure: plt.close is not reached *)
PlotLengthsRaises ==
    /\ figureOpen' = TRUE
    /\ pc' = "raised"
    /\ exc' = "plot_error"
    /\ UNCHANGED <<plotFile, effects>>

----------------------------------------------------------------------------
(* main *)

(* line 98: not count *)
NotCount_Never(r) == FALSE

NotCount(r) == r.tag = "None" \/ (r.tag = "int" /\ r.int = 0)

(* lines 89-92 *)
MainInputMin ==
    /\ prev' = prev
    /\ pc = "main_start"
    /\ \E t \in TaxIds, r \in RawInputs :
          /\ taxid' = t
          /\ IF IntOk(r)
             THEN /\ min_len' = IntOf(r)
                  /\ pc' = "main_max"
                  /\ exc' = exc
             ELSE /\ pc' = "raised"
                  /\ exc' = "ValueError"
                  /\ min_len' = min_len
    /\ UNCHANGED <<max_len, webenv, query_key, count, args, ret, df, df0, csvFile,
                   plotFile, effects, fetchReqs, console, openHandles, figureOpen>>

(* lines 93-96 *)
MainInputMax ==
    /\ prev' = prev
    /\ pc = "main_max"
    /\ \E r \in RawInputs :
          IF IntOk(r)
          THEN /\ max_len' = IntOf(r)
               /\ pc' = "tax_efetch"
               /\ exc' = exc
          ELSE /\ pc' = "raised"
               /\ exc' = "ValueError"
               /\ max_len' = max_len
    /\ UNCHANGED <<taxid, min_len, webenv, query_key, count, args, ret, df, df0,
                   csvFile, plotFile, effects, fetchReqs, console, openHandles,
                   figureOpen>>

(* lines 96-103 *)
MainAfterSearch ==
    /\ prev' = prev
    /\ pc = "ret_search"
    /\ IF NotCount(ret)
       THEN /\ console' = Append(console, "exiting")
            /\ pc' = "done"
            /\ args' = args
       ELSE /\ console' = Append(console, "fetching")
            /\ args' = [start |-> DefaultStart, max_records |-> MainMaxRecords]
            /\ pc' = "fetch_check"
    /\ UNCHANGED <<taxid, min_len, max_len, webenv, query_key, count, ret, df, df0,
                   csvFile, plotFile, effects, fetchReqs, openHandles, figureOpen,
                   exc>>

(* lines 104-106 *)
MainSave ==
    /\ prev' = prev
    /\ pc = "ret_fetch"
    /\ \/ /\ SaveToCsvOk(ret.list, CsvName(taxid), min_len, max_len)
          /\ console' = Append(console, "saved_csv")
          /\ pc' = "main_plot"
          /\ exc' = exc
       \/ /\ SaveToCsvRaises
          /\ console' = console
    /\ UNCHANGED <<taxid, min_len, max_len, webenv, query_key, count, args, ret, df0,
                   plotFile, fetchReqs, openHandles, figureOpen>>

(* lines 108-110 *)
MainPlot ==
    /\ prev' = prev
    /\ pc = "main_plot"
    /\ \/ /\ PlotLengthsOk(df, PlotName(taxid))
          /\ console' = Append(console, "saved_plot")
          /\ pc' = "done"
          /\ exc' = exc
       \/ /\ PlotLengthsRaises
          /\ console' = console
    /\ UNCHANGED <<taxid, min_len, max_len, webenv, query_key, count, args, ret, df, df0,
                   csvFile, fetchReqs, openHandles>>

----------------------------------------------------------------------------
(* A client of one NCBIRetriever instance that calls its two methods in any *)
(* order, any number of times. The client looks at the requests and the     *)
(* messages of one call at a time: the logs start empty at every call, and  *)
(* of the value the previous call returned only the kind is remembered.     *)
ApiIdle == {"idle", "ret_search", "ret_fetch"}
ApiArgs == {[start |-> 0, max_records |-> 10], [start |-> 0, max_records |-> 500],
            [start |-> 1, max_records |-> 501]}

(* search_taxid(taxid), line 17 *)
ApiSearch ==
    /\ prev' = ret.tag
    /\ ret' = RetNone
    /\ pc \in ApiIdle
    /\ \E t \in TaxIds : taxid' = t
    /\ effects' = <<>>
    /\ fetchReqs' = <<>>
    /\ console' = <<>>
    /\ pc' = "tax_efetch"
    /\ UNCHANGED <<min_len, max_len, webenv, query_key, count, args, df, df0,
                   csvFile, plotFile, openHandles, figureOpen, exc>>

(* fetch_records(start, max_records), line 45 *)
ApiFetch ==
    /\ prev' = ret.tag
    /\ ret' = RetNone
    /\ pc \in ApiIdle
    /\ \E a \in ApiArgs : args' = a
    /\ effects' = <<>>
    /\ fetchReqs' = <<>>
    /\ console' = <<>>
    /\ pc' = "fetch_check"
    /\ UNCHANGED <<taxid, min_len, max_len, webenv, query_key, count, df, df0,
                   csvFile, plotFile, openHandles, figureOpen, exc>>

----------------------------------------------------------------------------
(* save_to_csv applied to any record sequence and bounds, then applied      *)
(* again to the records it kept.                                            *)
FilterBounds == (0 - 1)..(MaxSeqLen + 1)

FilterApply ==
    /\ prev' = prev
    /\ pc = "filter_start"
    /\ \/ /\ SaveToCsvOk(ret.list, CsvName(taxid), min_len, max_len)
          /\ pc' = "filtered"
          /\ exc' = exc
       \/ SaveToCsvRaises
    /\ UNCHANGED <<taxid, min_len, max_len, webenv, query_key, count, args, ret, df0,
                   plotFile, fetchReqs, console, openHandles, figureOpen>>

FilterReapply ==
    /\ prev' = prev
    /\ pc = "filtered"
    /\ df0' = df
    /\ ret' = RetList(KeptBy(ret.list, min_len, max_len))
    /\ \/ /\ SaveToCsvOk(KeptBy(ret.list, min_len, max_len), CsvName(taxid),
                         min_len, max_len)
          /\ pc' = "refiltered"
          /\ exc' = exc
       \/ SaveToCsvRaises
    /\ UNCHANGED <<taxid, min_len, max_len, webenv, query_key, count, args,
                   plotFile, fetchReqs, console, openHandles, figureOpen>>

----------------------------------------------------------------------------
InitCommon ==
    /\ webenv = <<>>
    /\ query_key = <<>>
    /\ count = <<>>
    /\ args = NoArgs
    /\ df = <<>>
    /\ df0 = <<>>
    /\ csvFile = <<>>
    /\ plotFile = <<>>
    /\ effects = <<>>
    /\ fetchReqs = <<>>
    /\ console = <<>>
    /\ openHandles = {}
    /\ figureOpen = FALSE
    /\ exc = "none"
    /\ prev = "no call"

(* one run of main *)
Init ==
    /\ InitCommon
    /\ pc = "main_start"
    /\ taxid = ""
    /\ min_len = 0
    /\ max_len = 0
    /\ ret = RetNone

Next ==
    \/ MainInputMin
    \/ MainInputMax
    \/ TaxEfetch
    \/ TaxRead
    \/ Esearch
    \/ SearchRead
    \/ MainAfterSearch
    \/ FetchCheck
    \/ FetchEfetch
    \/ FetchParse
    \/ MainSave
    \/ MainPlot

Spec == Init /\ [][Next]_vars

(* one NCBIRetriever instance used by a client *)
InitApi ==
    /\ InitCommon
    /\ pc = "idle"
    /\ taxid = ""
    /\ min_len = 0
    /\ max_len = 0
    /\ ret = RetNone

NextApi ==
    \/ ApiSearch
    \/ ApiFetch
    \/ TaxEfetch
    \/ TaxRead
    \/ Esearch
    \/ SearchRead
    \/ FetchCheck
    \/ FetchEfetch
    \/ FetchParse

SpecApi == InitApi /\ [][NextApi]_vars

(* save_to_csv on its own *)
InitFilter ==
    /\ InitCommon
    /\ pc = "filter_start"
    /\ taxid \in TaxIds
    /\ min_len \in FilterBounds
    /\ max_len \in FilterBounds
    /\ \E rs \in SeqsUpTo(Records, MaxFiltered) : ret = RetList(rs)

NextFilter ==
    \/ FilterApply
    \/ FilterReapply

SpecFilter == InitFilter /\ [][NextFilter]_vars

----------------------------------------------------------------------------
(* Properties *)

InSeq(x, s) == \E i \in 1..Len(s) : s[i] = x
NumberOf(x, s) == Cardinality({i \in 1..Len(s) : s[i] = x})
LastReq == fetchReqs[Len(fetchReqs)]

(* C1: the table save_to_csv returns holds exactly the records r of R with  *)
(* min_len <= len(r.seq) <= max_len, projected to (id, length,              *)
(* description), in the order of R, none duplicated.                        *)
InWindow(R, lo, hi) == {i \in 1..Len(R) : lo <= Len(R[i].seq) /\ Len(R[i].seq) <= hi}
C1_FilterExact ==
    pc = "filtered" =>
        LET R == ret.list
            K == InWindow(R, min_len, max_len)
        IN  /\ Len(df) = Cardinality(K)
            /\ \A i \in K :
                  df[Cardinality({j \in K : j <= i})] =
                      [Accession |-> R[i].id, Length |-> Len(R[i].seq),
                       Description |-> R[i].description]
            /\ csvFile = <<[name |-> CsvName(taxid), header |-> Header, rows |-> df]>>

C1_Witness ==
    /\ pc = "filtered"
    /\ Len(ret.list) = 3
    /\ Len(df) = 2
    /\ min_len < max_len
    /\ df[1].Length = max_len
    /\ df[2].Length = min_len
    /\ Len(ret.list[2].seq) > max_len

(* C2: when search_taxid yields no result, main issues no record fetch and  *)
(* ends without writing the CSV file or the plot file.                      *)
SearchYieldedNothing == InSeq("error_search", console) \/ InSeq("no_records_for", console)
C2_NoResultNoOutput ==
    SearchYieldedNothing =>
        /\ ~InSeq("efetch", effects)
        /\ ~InSeq("csv", effects)
        /\ ~InSeq("plot", effects)
        /\ fetchReqs = <<>>
        /\ csvFile = <<>>
        /\ plotFile = <<>>
        /\ pc \in {"ret_search", "done"}
        /\ exc = "none"

C2_Witness ==
    /\ pc = "done"
    /\ InSeq("no_records_for", console)
    /\ console[Len(console)] = "exiting"
    /\ InSeq("esearch", effects)

(* C3: fetch_records on a retriever without a stored session returns an     *)
(* empty sequence, does not raise and issues no remote fetch.               *)
C3_NoSessionNoFetch ==
    (webenv = <<>> \/ query_key = <<>>) =>
        /\ pc \notin {"fetch_efetch", "fetch_parse", "raised"}
        /\ ~InSeq("efetch", effects)
        /\ fetchReqs = <<>>
        /\ (pc = "ret_fetch" => ret = RetList(<<>>))

C3_Witness ==
    /\ pc = "ret_fetch"
    /\ webenv = <<>>
    /\ console = <<"no_session">>
    /\ ret = RetList(<<>>)
    /\ args.max_records = 501

(* C4: a fetch_records call issues at most one fetch request, whose retmax  *)
(* is min(max_records, 500) and so never above 500.                         *)
C4_OneClampedRequest ==
    /\ Len(fetchReqs) <= 1
    /\ NumberOf("efetch", effects) = Len(fetchReqs)
    /\ \A i \in 1..Len(fetchReqs) :
          /\ fetchReqs[i].retmax <= 500
          /\ fetchReqs[i].retmax =
                (IF args.max_records <= 500 THEN args.max_records ELSE 500)
          /\ fetchReqs[i].retstart = args.start
    /\ pc \in {"fetch_parse"} => Len(fetchReqs) = 1

C4_Witness ==
    /\ pc = "ret_fetch"
    /\ args.max_records = 501
    /\ Len(fetchReqs) = 1
    /\ LastReq.retmax = 500
    /\ Len(ret.list) = MaxRecords

(* C5: no exception ever leaves main. *)
C5_NoExceptionLeavesMain == pc # "raised"

(* C6: when a run has ended, no network handle and no figure is open. *)
C6_AllReleased == pc \in {"done", "raised"} => (openHandles = {} /\ ~figureOpen)

(* C7: filtering the records save_to_csv kept, with the same bounds, gives  *)
(* the same table.                                                          *)
C7_Idempotent == pc = "refiltered" => df = df0

C7_Witness ==
    /\ pc = "refiltered"
    /\ Len(df0) = 2
    /\ df0[1] # df0[2]
    /\ min_len < max_len

(* C8: a failed fetch makes fetch_records return an empty sequence; main    *)
(* goes on, the table is empty and the CSV written has the header only.     *)
FetchFailed == InSeq("error_fetch", console)
C8_FetchFailureContinues ==
    FetchFailed =>
        /\ pc \in {"ret_fetch", "main_plot", "done", "raised"}
        /\ (pc = "ret_fetch" => ret = RetList(<<>>))
        /\ (pc = "raised" => exc \in {"csv_error", "plot_error"})
        /\ (pc \in {"main_plot", "done"} =>
               /\ df = <<>>
               /\ InSeq("csv", effects)
               /\ csvFile = <<[name |-> CsvName(taxid), header |-> Header,
                               rows |-> <<>>]>>)

C8_Witness ==
    /\ pc = "done"
    /\ FetchFailed
    /\ csvFile # <<>>
    /\ csvFile[1].rows = <<>>
    /\ InSeq("found", console)

(* C9: in a run of main the steps happen in the order taxonomy lookup,      *)
(* search, fetch, CSV write, plot write, each at most once; the fetch uses  *)
(* the session the search of this run stored, the CSV follows the return of *)
(* the fetch and the plot follows the CSV.                                  *)
Rank(e) == CASE e = "taxonomy" -> 1 [] e = "esearch" -> 2 [] e = "efetch" -> 3
             [] e = "csv" -> 4 [] OTHER -> 5
C9_StepOrder ==
    /\ \A i, j \in 1..Len(effects) : i < j => Rank(effects[i]) < Rank(effects[j])
    /\ InSeq("esearch", effects) => InSeq("taxonomy", effects)
    /\ Len(fetchReqs) <= 1
    /\ InSeq("efetch", effects) =>
          /\ InSeq("esearch", effects)
          /\ InSeq("found", console)
          /\ webenv # <<>> /\ query_key # <<>>
          /\ Len(fetchReqs) = 1
          /\ fetchReqs[1].webenv = webenv[1]
          /\ fetchReqs[1].query_key = query_key[1]
    /\ InSeq("csv", effects) =>
          /\ InSeq("efetch", effects)
          /\ pc \in {"main_plot", "done", "raised"}
    /\ InSeq("plot", effects) => InSeq("csv", effects)

C9_Witness ==
    /\ pc = "done"
    /\ effects = <<"taxonomy", "esearch", "efetch", "csv", "plot">>
    /\ Len(df) = 2

(* C10: a search_taxid call that returns None leaves webenv, query_key and  *)
(* count as they were, so a later fetch_records still sends a request with  *)
(* the session an earlier search stored.                                    *)
SearchPcs == {"tax_efetch", "tax_read", "esearch", "search_read"}
====
